---- MODULE Spec2Model ----
(***************************************************************************)
(* ReducerControl (fedn/clients/reducer/control.py): the reducer's round   *)
(* orchestration.  Callers invoke instruct(config), add(combiner) and      *)
(* remove(combiner) on one ReducerControl object; combiners are remote     *)
(* nodes reached through their handles.  instruct is modelled step by      *)
(* step, one step per remote call or per shared-state access, so that      *)
(* calls of other callers and the combiners' own progress interleave with  *)
(* it.                                                                     *)
(***************************************************************************)
EXTENDS Integers, Sequences, FiniteSets, TLC

\* ------------------------------------------------------------------ bounds
MaxRounds == 2
MaxTimeoutHalves == 3
MaxId == 2
MaxWorkers == 3

\* ------------------------------------------------------------- value sets
\* Combiner handles: distinct objects; a1 and a2 carry the same name, which
\* is to say that they are two handles of the same combiner node.
Handles == {"a1", "a2", "b1"}
name(h) == IF h = "b1" THEN "b" ELSE "a"
Names == {name(h) : h \in Handles}

\* Threads that call instruct.
Callers == {1, 2}

\* ReducerState (state.py): idle, instructing, monitoring.
ReducerState == {"idle", "instructing", "monitoring"}

\* Model ids.  NoneId is Python's None (no model); positive ids are ids of
\* the model chain (seed, uuid4() and repository ids); LocalId is the id a
\* combiner gives to a model it has produced itself.  The reducer only ever
\* compares a combiner's id with the latest id, so successive local ids of
\* a combiner need not be told apart.
NoneId == 0
SeedId == 1
LocalId == -1

\* config['rounds'], config['round_timeout'] (in half seconds, so that a
\* non-integer timeout is among the inputs), config['clients_required'].
Configs == [rounds : {0, MaxRounds},
            round_timeout : {0, MaxTimeoutHalves},
            clients_required : {3}]
NoConfig == [rounds |-> 0, round_timeout |-> 0, clients_required |-> 0]

\* report()['nr_active_clients'] as a combiner may answer it.
ActiveCounts == {0, 5}

\* ---------------------------------------------------------------- helpers
Range(s) == {s[i] : i \in 1..Len(s)}

RECURSIVE SelectSeq2(_, _)
\* The subsequence of s of the elements in set S (order kept).
SelectSeq2(s, S) ==
  IF s = <<>> THEN <<>>
  ELSE IF Head(s) \in S THEN <<Head(s)>> \o SelectSeq2(Tail(s), S)
       ELSE SelectSeq2(Tail(s), S)

\* list.remove(x): the list without the first element equal to x.
RECURSIVE ListRemove(_, _)
ListRemove(s, x) ==
  IF s = <<>> THEN <<>>
  ELSE IF Head(s) = x THEN Tail(s)
       ELSE <<Head(s)>> \o ListRemove(Tail(s), x)

Max(a, b) == IF a >= b THEN a ELSE b

\* ceil of a timeout given in half seconds, in whole seconds.
CeilSeconds(halves) == (halves + 1) \div 2

\* ------------------------------------------------- ReducerControl, pure parts
\* The participation policy with its operands exchanged.
participation_policy_swapped(clients_required, nr_active_clients) ==
  nr_active_clients <= clients_required

\* check_round_participation_policy(compute_plan, combiner_state)
check_round_participation_policy(clients_required, nr_active_clients) ==
  clients_required <= nr_active_clients

\* check_round_start_policy(combiners)
check_round_start_policy(cs) == Len(cs) > 0

\* check_round_validity_policy(combiners)
check_round_validity_policy(cs) == Len(cs) > 0

\* find(name): the first registered combiner of that name, or None ("").
NoHandle == ""
\* find comparing the combiner itself, not its name, with the name.
find_object(cs, n) ==
  IF \E i \in 1..Len(cs) : cs[i] = n THEN n ELSE NoHandle

RECURSIVE find(_, _)
find(cs, n) ==
  IF cs = <<>> THEN NoHandle
  ELSE IF n = name(Head(cs)) THEN Head(cs)
       ELSE find(Tail(cs), n)

\* The guard of add and remove testing for instructing only, and absent.
NotIdle_instructing(st) == st = "instructing"
NotIdle_never(st) == FALSE

\* `if self.__state != ReducerState.idle: return` of add and of remove.
NotIdle(st) == st # "idle"

\* The guard of instruct testing for the wrong state.
AlreadyInstructing_monitoring(st) == st = "monitoring"

\* `if self.__state == ReducerState.instructing: return` of instruct.
AlreadyInstructing(st) == st = "instructing"

\* The loop of instruct one iteration short.
RoundsLeft_short(k, config) == k + 1 < config.rounds

\* `for round in range(int(config['rounds']))`: another iteration is due
\* after k iterations.
RoundsLeft(k, config) == k < config.rounds

\* The timeout tested against the wait before the last sleep.
TimedOut_late(wait, config) == 2 * (wait - 1) >= config.round_timeout

\* `if wait >= config['round_timeout']: break` (wait in whole seconds, the
\* timeout in half seconds).
TimedOut(wait, config) == 2 * wait >= config.round_timeout

\* _out_of_sync(combiners): the combiners of cs (of the whole registry when
\* cs is empty or None) whose get_model_id() differs from get_latest_model().
_out_of_sync(cs, registry, ids, latest_id) ==
  LET of == IF cs = <<>> THEN registry ELSE cs
  IN  SelectSeq2(of, {h \in Handles : ids[name(h)] # latest_id})

\* No model: an unbound or None `model`.
NoModel == <<>>

\* uuid.uuid4() and model_repository.set_model(): ids nobody holds yet,
\* taken from the chain's counter n.
uuid4(n) == n
set_model(n) == n + 1

\* ---------------------------------------------------------------- reduce
\* What one combiner of `combiners` does to reduce():
\*   data : "rpc"  get_model() raises,
\*          "none" get_model() returns nothing,
\*          "good" the data loads, "bad" helper.load_model(data) raises;
\*   fold : whether the try block (second get_model(), load_model and
\*          increment_average on an existing model) runs through.
Fetches == [data : {"rpc", "none", "good", "bad"}, fold : BOOLEAN]

\* A combined model is the list of the steps that built it: <<c, 1>> is
\* load_model of c's data, <<c, i>> with i > 1 is increment_average(model,
\* c's model, i).
RECURSIVE reduce_from(_, _, _, _)
reduce_from(cs, fetch, model, i) ==
  IF cs = <<>>
  THEN IF model = NoModel
       THEN [exc |-> "UnboundLocalError", model |-> NoModel, i |-> i]
       ELSE [exc |-> "", model |-> model, i |-> i]
  ELSE LET c == Head(cs)
           f == Head(fetch)
       IN  IF f.data = "rpc"
           THEN [exc |-> "RemoteUnavailableError", model |-> model, i |-> i]
           ELSE IF f.data = "none"
           THEN reduce_from(Tail(cs), Tail(fetch), model, i)
           ELSE IF model # NoModel /\ f.fold
           THEN reduce_from(Tail(cs), Tail(fetch),
                            Append(model, <<c, i>>), i + 1)
           ELSE IF f.data = "good"
           THEN reduce_from(Tail(cs), Tail(fetch), << <<c, 1>> >>, i + 1)
           ELSE [exc |-> "FormatError", model |-> model, i |-> i]

reduce(cs, fetch) == reduce_from(cs, fetch, NoModel, 1)

\* ------------------------------------------------------------------ state
VARIABLES
  state,      \* self.__state
  combiners,  \* self.combiners, the registry (a list of handles)
  latest,     \* statestore's latest model id
  nextId,     \* the next unused id of the model chain
  wmid,       \* per combiner node: what get_model_id() returns
  wbusy,      \* per combiner node: a training plan is being executed
  th,         \* per caller: the frame of its instruct call
  last,       \* the call of add, remove or instruct that was the last step
  parent,     \* statestore: per committed model id, the id it superseded
  rd          \* a call of reduce on its own: its inputs and its outcome

vars == <<state, combiners, latest, nextId, wmid, wbusy, th, last,
          parent, rd>>

\* A caller's frame: the locals of instruct and round, and for the
\* properties what the call has done so far: pre is the latest id at the
\* start of the round, empty0 whether the call met an idle reducer with an
\* empty registry, touched whether it has called a combiner, committed and
\* did_commit whether the call and the round have called commit, why the
\* place where the round ended; of the round's calls to the combiners,
\* reported is the active counts that report() gave, synced the
\* set_model_id calls (combiner and id), started and validated the combiners
\* whose start() took the compute plan and the validation plan.
Frame0 ==
  [pc |-> "idle", config |-> NoConfig, round |-> 0,
   plan_id |-> NoneId, parts |-> <<>>, idx |-> 0, wait |-> 0,
   updated |-> <<>>, model |-> NoModel, model_id |-> NoneId,
   result |-> NoneId, val_id |-> NoneId, exc |-> "", why |-> "",
   pre |-> NoneId, empty0 |-> FALSE,
   touched |-> FALSE, committed |-> FALSE, did_commit |-> FALSE,
   reported |-> <<>>, synced |-> <<>>, started |-> <<>>,
   validated |-> <<>>]

\* A call as `last` records it: the operation, the reducer state it met,
\* whether find() knew the name (add) and whether the call raised.
Call(op, st, dup, raised) ==
  [op |-> op, st |-> st, dup |-> dup, raised |-> raised]
NoCall == Call("", "idle", FALSE, FALSE)

\* A call of reduce(combiners) on its own: the list it is given, what each
\* combiner of the list does, and once the call is over its outcome.
NoOutcome == [exc |-> "", model |-> NoModel, i |-> 0]
ReduceOf(cs, fetch) ==
  [cs |-> cs, fetch |-> fetch, done |-> FALSE, out |-> NoOutcome]
NoReduce == ReduceOf(<<>>, <<>>)

\* ReducerControl.__init__, with the statestore empty or seeded.
InitControl ==
  /\ state = "idle"
  /\ combiners = <<>>
  /\ latest \in {NoneId, SeedId}
  /\ nextId = SeedId + 1
  /\ wmid = [n \in Names |-> NoneId]
  /\ wbusy = [n \in Names |-> FALSE]
  /\ th = [t \in Callers |-> Frame0]
  /\ last = NoCall
  /\ parent = <<>>

Init ==
  /\ InitControl
  /\ rd = NoReduce

\* set_latest recording the new id as its own parent.
set_latest_self(chain, new_id, old_id) == (new_id :> new_id) @@ chain

\* statestore.set_latest(model_id) as the model chain sees it: the new
\* latest id supersedes the old one.
set_latest(chain, new_id, old_id) == (new_id :> old_id) @@ chain

\* commit handing the id that is already the latest to set_latest.
commit_stale(model_id, model, repository_id) == latest

\* commit(model_id, model): the id handed to statestore.set_latest.  With a
\* model the repository's id replaces the caller's model_id.
commit(model_id, model, repository_id) ==
  IF model # NoModel THEN repository_id ELSE model_id

\* --------------------------------------------------------------- registry
\* add(combiner)
add(h) ==
  /\ last' = Call("add", state,
                  ~NotIdle(state) /\ find(combiners, name(h)) # NoHandle,
                  FALSE)
  /\ IF NotIdle(state) THEN UNCHANGED combiners
     ELSE IF find(combiners, name(h)) # NoHandle THEN UNCHANGED combiners
     ELSE combiners' = Append(combiners, h)
  /\ UNCHANGED <<state, latest, nextId, wmid, wbusy, th, parent, rd>>

\* remove(combiner): list.remove raises ValueError when the combiner is not
\* in the list.
remove(h) ==
  /\ last' = Call("remove", state, FALSE,
                  ~NotIdle(state) /\ h \notin Range(combiners))
  /\ IF NotIdle(state) THEN UNCHANGED combiners
     ELSE combiners' = ListRemove(combiners, h)
  /\ UNCHANGED <<state, latest, nextId, wmid, wbusy, th, parent, rd>>

\* --------------------------------------------------------------- instruct
Set(t, f) == th' = [th EXCEPT ![t] = f]

\* An exception of class e leaves round and instruct (neither catches it).
Raise(f, e) ==
  [f EXCEPT !.pc = "raised", !.exc = e, !.parts = <<>>, !.updated = <<>>,
            !.idx = 0, !.wait = 0, !.model = NoModel, !.plan_id = NoneId,
            !.reported = <<>>, !.synced = <<>>, !.started = <<>>,
            !.validated = <<>>]

\* `return None` of round, for the reason why.
ReturnNone(f, why) ==
  [f EXCEPT !.pc = "returned", !.result = NoneId, !.why = why]

\* instruct(config), lines 192-196: the guard and the move to instructing.
InstructCall(t, config) ==
  /\ th[t].pc = "idle"
  /\ last' = Call("instruct", state, FALSE, FALSE)
  /\ IF AlreadyInstructing(state)
     THEN UNCHANGED <<state, th>>
     ELSE /\ state' = "instructing"
          /\ Set(t, [Frame0 EXCEPT !.pc = "instructing", !.config = config,
                                   !.empty0 = (state = "idle"
                                               /\ combiners = <<>>)])
  /\ UNCHANGED <<combiners, latest, nextId, wmid, wbusy, parent, rd>>

\* lines 198-201: the seed warning and the move to monitoring.
InstructMonitor(t) ==
  /\ th[t].pc = "instructing"
  /\ state' = "monitoring"
  /\ Set(t, [th[t] EXCEPT !.pc = "loop"])
  /\ last' = NoCall
  /\ UNCHANGED <<combiners, latest, nextId, wmid, wbusy, parent, rd>>

\* line 203 and line 211: the next iteration, or the return to idle.
InstructLoop(t) ==
  /\ th[t].pc = "loop"
  /\ IF RoundsLeft(th[t].round, th[t].config)
     THEN /\ Set(t, [th[t] EXCEPT !.pc = "round", !.pre = latest])
          /\ UNCHANGED state
     ELSE /\ state' = "idle"
          /\ Set(t, [th[t] EXCEPT !.pc = "done"])
  /\ last' = NoCall
  /\ UNCHANGED <<combiners, latest, nextId, wmid, wbusy, parent, rd>>

\* lines 205-208: round has returned; its result is logged.
InstructNext(t) ==
  /\ th[t].pc = "returned"
  /\ Set(t, [Frame0 EXCEPT !.pc = "loop", !.round = th[t].round + 1,
                          !.config = th[t].config,
                          !.empty0 = th[t].empty0,
                          !.touched = th[t].touched,
                          !.committed = th[t].committed])
  /\ last' = NoCall
  /\ UNCHANGED <<state, combiners, latest, nextId, wmid, wbusy, parent, rd>>

\* The call is over (returned or raised) and the caller is free again.
CallerResume(t) ==
  /\ th[t].pc \in {"done", "raised"}
  /\ Set(t, Frame0)
  /\ last' = NoCall
  /\ UNCHANGED <<state, combiners, latest, nextId, wmid, wbusy, parent, rd>>

\* ------------------------------------------------------------------ round
\* lines 104-112: no combiners, or the compute plan.
RoundPlan(t) ==
  /\ th[t].pc = "round"
  /\ IF Len(combiners) < 1
     THEN Set(t, ReturnNone(th[t], "empty"))
     ELSE Set(t, [th[t] EXCEPT !.pc = "report", !.plan_id = latest,
                               !.parts = <<>>, !.idx = 1])
  /\ last' = NoCall
  /\ UNCHANGED <<state, combiners, latest, nextId, wmid, wbusy, parent, rd>>

\* lines 115-119: one combiner's report() and the participation policy.
RoundReport(t) ==
  /\ th[t].pc = "report"
  /\ th[t].idx <= Len(combiners)
  /\ LET c == combiners[th[t].idx]
         f == [th[t] EXCEPT !.touched = TRUE]
     IN  \/ Set(t, Raise(f, "RemoteUnavailableError"))
         \/ \E n \in ActiveCounts :
              Set(t, [f EXCEPT
                 !.idx = @ + 1,
                 !.reported = Append(@, n),
                 !.parts = IF check_round_participation_policy(
                                 th[t].config.clients_required, n)
                           THEN Append(@, c) ELSE @])
  /\ last' = NoCall
  /\ UNCHANGED <<state, combiners, latest, nextId, wmid, wbusy, parent, rd>>

\* lines 123-126: the round start policy.
RoundStartGate(t) ==
  /\ th[t].pc = "report"
  /\ th[t].idx > Len(combiners)
  /\ IF ~check_round_start_policy(th[t].parts)
     THEN Set(t, ReturnNone(th[t], "start"))
     ELSE Set(t, [th[t] EXCEPT !.pc = "sync", !.idx = 1])
  /\ last' = NoCall
  /\ UNCHANGED <<state, combiners, latest, nextId, wmid, wbusy, parent, rd>>

\* The round going on to start() without the call of sync_combiners.
RoundSync_skip(t) ==
  /\ th[t].pc = "sync"
  /\ Set(t, [th[t] EXCEPT !.pc = "start"])
  /\ last' = NoCall
  /\ UNCHANGED <<state, combiners, latest, nextId, wmid, wbusy, parent, rd>>

\* line 131 and sync_combiners: set_model_id(latest) on one participant,
\* skipped when there is no latest model.
RoundSync(t) ==
  /\ th[t].pc = "sync"
  /\ LET c == th[t].parts[th[t].idx]
     IN  IF latest = NoneId
         THEN /\ Set(t, [th[t] EXCEPT !.pc = "start"])
              /\ UNCHANGED wmid
         ELSE \/ /\ Set(t, Raise([th[t] EXCEPT !.touched = TRUE],
                                 "RemoteUnavailableError"))
                 /\ UNCHANGED wmid
              \/ /\ Set(t, [th[t] EXCEPT !.pc = "start", !.touched = TRUE,
                                         !.synced = Append(@, <<c, latest>>)])
                 /\ wmid' = [wmid EXCEPT ![name(c)] = latest]
  /\ last' = NoCall
  /\ UNCHANGED <<state, combiners, latest, nextId, wbusy, parent, rd>>

\* line 133: start(compute_plan) on that participant; line 142 after the
\* last one.
RoundStart(t) ==
  /\ th[t].pc = "start"
  /\ LET c == th[t].parts[th[t].idx]
         f == [th[t] EXCEPT !.touched = TRUE]
     IN  \/ /\ Set(t, Raise(f, "RemoteUnavailableError"))
            /\ UNCHANGED wbusy
         \/ /\ wbusy' = [wbusy EXCEPT ![name(c)] = TRUE]
            /\ IF th[t].idx < Len(th[t].parts)
               THEN Set(t, [f EXCEPT !.pc = "sync", !.idx = @ + 1,
                                     !.started = Append(@, c)])
               ELSE Set(t, [f EXCEPT !.pc = "poll", !.wait = 0,
                                     !.started = Append(@, c)])
  /\ last' = NoCall
  /\ UNCHANGED <<state, combiners, latest, nextId, wmid, parent, rd>>

\* line 143: the loop condition, get_model_id() of every participant.
RoundPoll(t) ==
  /\ th[t].pc = "poll"
  /\ LET f == [th[t] EXCEPT !.touched = TRUE]
     IN  \/ Set(t, Raise(f, "RemoteUnavailableError"))
         \/ IF Len(_out_of_sync(th[t].parts, combiners, wmid, latest))
                 < Len(th[t].parts)
            THEN Set(t, [f EXCEPT !.pc = "sleep"])
            ELSE Set(t, [f EXCEPT !.pc = "updated"])
  /\ last' = NoCall
  /\ UNCHANGED <<state, combiners, latest, nextId, wmid, wbusy, parent, rd>>

\* lines 144-147: one poll interval and the timeout.
RoundSleep(t) ==
  /\ th[t].pc = "sleep"
  /\ LET w == th[t].wait + 1
     IN  IF TimedOut(w, th[t].config)
         THEN Set(t, [th[t] EXCEPT !.pc = "updated", !.wait = w])
         ELSE Set(t, [th[t] EXCEPT !.pc = "poll", !.wait = w])
  /\ last' = NoCall
  /\ UNCHANGED <<state, combiners, latest, nextId, wmid, wbusy, parent, rd>>

\* The updated combiners taken from the round's participants only.
RoundUpdated_dispatched(t) ==
  /\ th[t].pc = "updated"
  /\ LET f == [th[t] EXCEPT !.touched = TRUE]
         u == _out_of_sync(th[t].parts, combiners, wmid, latest)
     IN  \/ Set(t, Raise(f, "RemoteUnavailableError"))
         \/ IF ~check_round_validity_policy(u)
            THEN Set(t, ReturnNone([f EXCEPT !.updated = u], "validity"))
            ELSE Set(t, [f EXCEPT !.pc = "reduce", !.updated = u])
  /\ last' = NoCall
  /\ UNCHANGED <<state, combiners, latest, nextId, wmid, wbusy, parent, rd>>

\* lines 151-158: the updated combiners of the whole registry and the
\* round validity policy.
RoundUpdated(t) ==
  /\ th[t].pc = "updated"
  /\ LET f == [th[t] EXCEPT !.touched = TRUE]
         u == _out_of_sync(<<>>, combiners, wmid, latest)
     IN  \/ Set(t, Raise(f, "RemoteUnavailableError"))
         \/ IF ~check_round_validity_policy(u)
            THEN Set(t, ReturnNone([f EXCEPT !.updated = u], "validity"))
            ELSE Set(t, [f EXCEPT !.pc = "reduce", !.updated = u])
  /\ last' = NoCall
  /\ UNCHANGED <<state, combiners, latest, nextId, wmid, wbusy, parent, rd>>

\* lines 162-164 and 176-178: reduce(updated) and `if model`.  reduce ends
\* in UnboundLocalError at its `return model` when no combiner gave it a
\* model.
RoundReduce(t) ==
  /\ th[t].pc = "reduce"
  /\ \E fetch \in [1..Len(th[t].updated) -> Fetches] :
       LET r == reduce(th[t].updated, fetch)
           f == [th[t] EXCEPT !.touched = TRUE]
       IN  IF r.exc = "UnboundLocalError"
           THEN Set(t, Raise([f EXCEPT !.why = "nothing"], r.exc))
           ELSE IF r.exc # ""
           THEN Set(t, Raise(f, r.exc))
           ELSE IF r.model # NoModel
           THEN Set(t, [f EXCEPT !.pc = "commit", !.model = r.model])
           ELSE Set(t, ReturnNone(f, "nothing"))
  /\ last' = NoCall
  /\ UNCHANGED <<state, combiners, latest, nextId, wmid, wbusy, parent, rd>>

\* lines 165-167: uuid4() and commit(model_id, model); the repository's
\* set_model returns the next unused id.
RoundCommit(t) ==
  /\ th[t].pc = "commit"
  /\ LET model_id == uuid4(nextId)
         repository_id == set_model(nextId)
     IN  /\ latest' = commit(model_id, th[t].model, repository_id)
         /\ parent' = set_latest(parent, latest', latest)
         /\ nextId' = nextId + 2
         /\ Set(t, [th[t] EXCEPT !.pc = "plan", !.model_id = model_id,
                                 !.model = NoModel,
                                 !.committed = TRUE, !.did_commit = TRUE])
  /\ last' = NoCall
  /\ UNCHANGED <<state, combiners, wmid, wbusy, rd>>

\* lines 170-172: the validation plan around get_latest_model().
RoundValidationPlan(t) ==
  /\ th[t].pc = "plan"
  /\ Set(t, [th[t] EXCEPT !.pc = "validate", !.val_id = latest, !.idx = 1])
  /\ last' = NoCall
  /\ UNCHANGED <<state, combiners, latest, nextId, wmid, wbusy, parent, rd>>

\* The validation plan started on the round's participants.
RoundValidate_parts(t) ==
  /\ th[t].pc = "validate"
  /\ LET c == th[t].parts[th[t].idx]
         f == [th[t] EXCEPT !.touched = TRUE]
     IN  \/ Set(t, Raise(f, "RemoteUnavailableError"))
         \/ IF th[t].idx < Len(th[t].parts)
            THEN Set(t, [f EXCEPT !.idx = @ + 1,
                                  !.validated = Append(@, c)])
            ELSE Set(t, [f EXCEPT !.pc = "returned",
                                  !.result = th[t].model_id,
                                  !.why = "commit",
                                  !.validated = Append(@, c)])
  /\ last' = NoCall
  /\ UNCHANGED <<state, combiners, latest, nextId, wmid, wbusy, parent, rd>>

\* lines 173-175: start(combiner_config) on one updated combiner; after
\* the last one `return model_id`.
RoundValidate(t) ==
  /\ th[t].pc = "validate"
  /\ LET c == th[t].updated[th[t].idx]
         f == [th[t] EXCEPT !.touched = TRUE]
     IN  \/ Set(t, Raise(f, "RemoteUnavailableError"))
         \/ IF th[t].idx < Len(th[t].updated)
            THEN Set(t, [f EXCEPT !.idx = @ + 1,
                                  !.validated = Append(@, c)])
            ELSE Set(t, [f EXCEPT !.pc = "returned",
                                  !.result = th[t].model_id,
                                  !.why = "commit",
                                  !.validated = Append(@, c)])
  /\ last' = NoCall
  /\ UNCHANGED <<state, combiners, latest, nextId, wmid, wbusy, parent, rd>>

\* -------------------------------------------------------------- combiners
\* A combiner finishes the training it was started for and now holds a
\* model of its own.
CombinerFinish(n) ==
  /\ wbusy[n]
  /\ wbusy' = [wbusy EXCEPT ![n] = FALSE]
  /\ wmid' = [wmid EXCEPT ![n] = LocalId]
  /\ last' = NoCall
  /\ UNCHANGED <<state, combiners, latest, nextId, th, parent, rd>>

\* ---------------------------------------------------------- specification
\* The ids of the model chain are bounded: instruct is called only while
\* the chain's next id is at most MaxId.
IdsLeft == nextId <= MaxId

\* Callers that do not overlap their runs: instruct is called when no other
\* call of instruct is under way, or while the reducer is instructing (the
\* call the guard rejects).  Callers are interchangeable, so the free
\* caller of the least number makes the call.
NoOverlap(t) ==
  /\ \A u \in Callers : u < t => th[u].pc # "idle"
  /\ \/ state = "instructing"
     \/ \A u \in Callers \ {t} : th[u].pc = "idle"

Step(t) ==
  \/ InstructMonitor(t)
  \/ InstructLoop(t)
  \/ InstructNext(t)
  \/ CallerResume(t)
  \/ RoundPlan(t)
  \/ RoundReport(t)
  \/ RoundStartGate(t)
  \/ RoundSync(t)
  \/ RoundStart(t)
  \/ RoundPoll(t)
  \/ RoundSleep(t)
  \/ RoundUpdated(t)
  \/ RoundReduce(t)
  \/ RoundCommit(t)
  \/ RoundValidationPlan(t)
  \/ RoundValidate(t)

Next ==
  \/ \E h \in Handles : add(h)
  \/ \E h \in Handles : remove(h)
  \/ \E n \in Names : CombinerFinish(n)
  \/ \E t \in Callers, config \in Configs :
       IdsLeft /\ NoOverlap(t) /\ InstructCall(t, config)
  \/ \E t \in Callers : Step(t)

Spec == Init /\ [][Next]_vars

\* Callers that overlap their runs: instruct is called at any moment, also
\* while another call of instruct is executing its rounds.  The call that
\* overlaps a run asks for zero rounds, and the registry is drawn from the
\* handles of OneNode.
OneNode == {"a1"}
Overlap(t, config) ==
  /\ \A u \in Callers : u < t => th[u].pc # "idle"
  /\ (\E u \in Callers : th[u].pc # "idle") => config.rounds = 0

NextOverlap ==
  \/ \E h \in OneNode : add(h)
  \/ \E h \in OneNode : remove(h)
  \/ \E n \in Names : CombinerFinish(n)
  \/ \E t \in Callers, config \in Configs :
       IdsLeft /\ Overlap(t, config) /\ InstructCall(t, config)
  \/ \E t \in Callers : Step(t)

SpecOverlap == Init /\ [][NextOverlap]_vars

\* reduce(combiners) called on its own, as resolve() and round call it: the
\* lists of at most MaxWorkers different handles, and every behaviour of
\* their combiners.
ReduceInputs ==
  {cs \in UNION {[1..n -> Handles] : n \in 0..MaxWorkers} :
     \A j, k \in 1..Len(cs) : cs[j] = cs[k] => j = k}

InitReduce ==
  /\ InitControl
  /\ \E cs \in ReduceInputs :
       \E fetch \in [1..Len(cs) -> Fetches] : rd = ReduceOf(cs, fetch)

ReduceCall ==
  /\ ~rd.done
  /\ rd' = [rd EXCEPT !.done = TRUE, !.out = reduce(rd.cs, rd.fetch)]
  /\ UNCHANGED <<state, combiners, latest, nextId, wmid, wbusy, th, last,
                 parent>>

NextReduce == ReduceCall

SpecReduce == InitReduce /\ [][NextReduce]_vars

\* ------------------------------------------------------------ properties
InRound(f) ==
  f.pc \in {"round", "report", "sync", "start", "poll", "sleep", "updated",
            "reduce", "commit", "plan", "validate", "returned"}

\* C1: a call of instruct that met an idle reducer with an empty registry
\* calls no combiner and no commit, does not end in an exception, and the
\* reducer is idle when it has returned.
C1_EmptyRegistryRun ==
  \A t \in Callers :
    th[t].empty0 =>
      /\ ~th[t].touched
      /\ ~th[t].committed
      /\ th[t].pc # "raised"
      /\ th[t].pc = "done" => state = "idle"

\* Such a call has returned after all its rounds.
C1_Witness ==
  \E t \in Callers :
    /\ th[t].empty0
    /\ th[t].pc = "done"
    /\ th[t].config.rounds = MaxRounds
    /\ th[t].round = MaxRounds

\* C2: a call of add or remove that meets a reducer that is not idle leaves
\* the registry as it was (same members, same order).
C2_RegistryFrozen ==
  [][(last'.op \in {"add", "remove"} /\ state # "idle")
       => combiners' = combiners]_vars

\* add or remove has been called on a monitoring reducer whose registry
\* holds one of the handles (the others are not registered).
C2_Witness ==
  /\ last.op \in {"add", "remove"}
  /\ last.st = "monitoring"
  /\ Len(combiners) = 1

\* C3: no two entries of the registry have the same name.
C3_UniqueNames ==
  \A i, j \in 1..Len(combiners) :
    i # j => name(combiners[i]) # name(combiners[j])

\* add has been called on an idle reducer with a handle whose name is
\* registered already.
C3_Witness ==
  /\ last.op = "add"
  /\ last.st = "idle"
  /\ last.dup
  /\ Len(combiners) = 2

\* C4 as claimed: a round that ends before the commit step (empty registry,
\* start gate, validity gate, nothing aggregated) returns None and the
\* latest id is what it was when the round began.
C4_NoUpdateReturned ==
  \A t \in Callers :
    th[t].why \in {"empty", "start", "validity", "nothing"} =>
      /\ th[t].pc = "returned"
      /\ th[t].result = NoneId
      /\ latest = th[t].pre

\* C5: after the commit step of a round the latest id differs from the
\* latest id of the round's start.
C5_LatestChanged ==
  \A t \in Callers : th[t].did_commit => latest # th[t].pre

\* A round that began with a seeded chain has committed and returned.
C5_Witness ==
  \E t \in Callers :
    /\ th[t].pc = "returned"
    /\ th[t].did_commit
    /\ th[t].pre # NoneId

\* C6 as claimed: the id a round returns is the latest id and the model_id
\* of the validation plan of that round.
C6_ReturnedIsLatest ==
  \A t \in Callers :
    (th[t].pc = "returned" /\ th[t].result # NoneId) =>
      /\ th[t].result = latest
      /\ th[t].result = th[t].val_id

\* C7: the wait loop sleeps at most max(1, ceil(round_timeout)) times, and
\* a round whose updated list is empty after the wait returns None.
WaitBound(config) == Max(1, CeilSeconds(config.round_timeout))

C7_WaitBounded ==
  \A t \in Callers :
    /\ th[t].wait <= WaitBound(th[t].config)
    /\ th[t].pc = "sleep" => th[t].wait < WaitBound(th[t].config)
    /\ th[t].pc \in {"reduce", "commit", "plan", "validate"}
         => th[t].updated # <<>>
    /\ th[t].why = "validity"
         => /\ th[t].pc = "returned"
            /\ th[t].result = NoneId
            /\ th[t].updated = <<>>

\* A round has waited the whole timeout of more than one interval, found
\* no combiner out of sync and returned None.
C7_Witness ==
  \E t \in Callers :
    /\ th[t].why = "validity"
    /\ th[t].config.round_timeout = MaxTimeoutHalves
    /\ th[t].wait = WaitBound(th[t].config)
    /\ th[t].wait > 1

\* C8: an accepted call of instruct with config.rounds = N has run N rounds
\* when it returns, never more, and leaves the reducer idle.
C8_AllRoundsRun ==
  \A t \in Callers :
    /\ th[t].round <= th[t].config.rounds
    /\ InRound(th[t]) => th[t].round < th[t].config.rounds
    /\ th[t].pc = "done"
         => /\ th[t].round = th[t].config.rounds
            /\ state = "idle"

\* A call has returned after MaxRounds rounds that called combiners and
\* all returned None.
C8_Witness ==
  \E t \in Callers :
    /\ th[t].pc = "done"
    /\ th[t].round = MaxRounds
    /\ th[t].touched
    /\ ~th[t].committed

\* C9 as claimed: a failing combiner call or a model that does not load
\* never ends the call of instruct.
C9_FailureContained ==
  \A t \in Callers :
    ~(/\ th[t].pc = "raised"
      /\ th[t].exc \in {"RemoteUnavailableError", "FormatError"})

\* C10: a call of instruct that meets an instructing reducer changes
\* nothing: not the reducer state, no caller's frame, no combiner, not the
\* latest id.
C10_Rejected ==
  [][(last'.op = "instruct" /\ state = "instructing")
       => UNCHANGED <<state, combiners, latest, nextId, wmid, wbusy, th>>]_vars

\* instruct has been called on an instructing reducer.
C10_Witness ==
  /\ last.op = "instruct"
  /\ last.st = "instructing"
  /\ state = "instructing"

\* C11: remove(handle) called while the reducer is idle with a handle that
\* is not in the registry completes without raising (and leaves the registry
\* as it was).  list.remove raises ValueError instead.
C11_RemoveUnknownNoOp ==
  (last.op = "remove" /\ last.st = "idle") => ~last.raised

\* The combiners of a reduce call whose get_model() yields data, in the
\* order of the list, and the place of k among them.
Yielding(fetch) == {k \in 1..Len(fetch) : fetch[k].data # "none"}
Place(fetch, k) == Cardinality({j \in Yielding(fetch) : j <= k})

\* C12: reduce over combiners none of which yields data (an empty list, or
\* every get_model() returning nothing) returns nothing as a value: it
\* neither raises nor makes up a model.
C12_NothingIsAValue ==
  (rd.done /\ Yielding(rd.fetch) = {})
    => rd.out.exc = "" /\ rd.out.model = NoModel

\* C13: a reduce call that returns has computed the running mean over the
\* combiners that yielded data: its model is load_model of the first one
\* followed by the fold of the k-th one with i = k, for every k >= 2.
C13_RunningMean ==
  (rd.done /\ rd.out.exc = "")
    => /\ Len(rd.out.model) = Cardinality(Yielding(rd.fetch))
       /\ \A k \in Yielding(rd.fetch) :
            rd.out.model[Place(rd.fetch, k)]
              = <<rd.cs[k], Place(rd.fetch, k)>>

\* C14: in every round, every combiner whose start() took the compute plan
\* has before that, in the same round, been given a model id by
\* set_model_id.
C14_SyncedBeforeStart ==
  \A t \in Callers :
    \A k \in 1..Len(th[t].started) :
      \E j \in 1..Len(th[t].synced) :
        th[t].synced[j][1] = th[t].started[k]

\* C14 as it holds: in a round that began with a latest model id, the k-th
\* combiner whose start() took the compute plan was the k-th to be given
\* that id by set_model_id (with no latest id, sync_combiners sends nothing
\* and the plan is started all the same).
C14_SyncedWhenLatest ==
  \A t \in Callers :
    th[t].pre # NoneId
      => \A k \in 1..Len(th[t].started) :
           /\ k <= Len(th[t].synced)
           /\ th[t].synced[k] = <<th[t].started[k], th[t].pre>>

C14_Witness ==
  \E t \in Callers :
    /\ th[t].pre # NoneId
    /\ Len(th[t].started) = 2
    /\ th[t].pc = "poll"

\* The places of the registry whose report() passed the participation
\* policy of frame f, once every combiner of the registry has reported.
Reported(f) == f.reported # <<>> /\ Len(f.reported) = Len(combiners)
Passing(f) ==
  {k \in 1..Len(f.reported) : f.reported[k] >= f.config.clients_required}
Dispatched(f) ==
  \/ f.pc \in {"poll", "sleep", "updated", "reduce", "commit", "plan",
               "validate"}
  \/ f.pc = "returned" /\ f.why \in {"validity", "nothing", "commit"}

\* C15: the compute plan goes to exactly the registered combiners whose
\* reported active count is at least clients_required; when none passes,
\* the start gate fails, no combiner gets set_model_id or start, and the
\* round returns None.
C15_DispatchSet ==
  \A t \in Callers :
    LET f == th[t]
    IN  /\ Reported(f)
          => /\ Range(f.parts) = {combiners[k] : k \in Passing(f)}
             /\ Len(f.parts) = Cardinality(Passing(f))
        /\ \A k \in 1..Len(f.started) :
             k <= Len(f.parts) /\ f.started[k] = f.parts[k]
        /\ Dispatched(f) => f.started = f.parts
        /\ (Reported(f) /\ Passing(f) = {} /\ f.pc # "report")
          => /\ f.pc = "returned" /\ f.why = "start"
             /\ f.result = NoneId
             /\ f.synced = <<>> /\ f.started = <<>>
        /\ f.why = "start" => Reported(f) /\ Passing(f) = {}

C15_Witness ==
  \E t \in Callers :
    /\ th[t].pc = "poll"
    /\ th[t].reported = <<5, 0>>
    /\ th[t].started = <<combiners[1]>>

C18_UpdatedOverRegistry ==
  [][\A t \in Callers :
       (th[t].pc = "updated" /\ th'[t].pc \in {"reduce", "returned"})
         => LET stale == {h \in Range(combiners) : wmid[name(h)] # latest}
            IN  /\ Range(th'[t].updated) = stale
                /\ Len(th'[t].updated) = Cardinality(stale)
                /\ (th'[t].pc = "returned") = (stale = {})]_vars

C18_Witness ==
  \E t \in Callers :
    /\ th[t].pc = "reduce"
    /\ \E h \in Range(th[t].updated) : h \notin Range(th[t].parts)

\* C19: the validation plan is started only in a round that has committed,
\* only after commit has moved the latest id (which the plan carries), and
\* on the combiners of the round's updated set in their order, each once:
\* on all of them when the round returns its model id, on none when the
\* round returns None.
C19_ValidationAfterCommit ==
  \A t \in Callers :
    LET f == th[t]
    IN  /\ f.validated # <<>>
          => f.did_commit /\ f.val_id = latest /\ latest # f.pre
        /\ \A k \in 1..Len(f.validated) :
             k <= Len(f.updated) /\ f.validated[k] = f.updated[k]
        /\ \A j, k \in 1..Len(f.validated) :
             f.validated[j] = f.validated[k] => j = k
        /\ (f.pc = "returned" /\ f.why = "commit")
          => f.validated = f.updated
        /\ (f.pc = "returned" /\ f.result = NoneId) => f.validated = <<>>

C19_Witness ==
  \E t \in Callers :
    /\ th[t].pc = "returned"
    /\ th[t].why = "commit"
    /\ Len(th[t].validated) = 2

\* C17: over every sequence and interleaving of calls, a call of instruct
\* arriving while another is executing its rounds included, the reducer
\* state changes only from idle to instructing, from instructing to
\* monitoring and from monitoring to idle.
C17_StateCycle ==
  [][state' # state
       => <<state, state'>> \in {<<"idle", "instructing">>,
                                 <<"instructing", "monitoring">>,
                                 <<"monitoring", "idle">>}]_vars

\* A round of frame f has begun and has not yet returned.
MidRound(f) == InRound(f) /\ f.pc # "returned"

\* C20: for any interleaving of instruct, add and remove by concurrent
\* callers, the registry does not change while a round is under way.
C20_RegistryFrozenInRound ==
  [][(\E t \in Callers : MidRound(th[t]) /\ MidRound(th'[t]))
       => combiners' = combiners]_vars

====
